---- MODULE Spec2Model ----
(***************************************************************************)
(* Model of the ztnet authentication router (authRouter): register,       *)
(* update, passwordResetLink and changePasswordFromJwt, run by concurrent *)
(* request handlers against one user store.  Every handler is cut at its  *)
(* awaits on the user store: the synchronous code between two store calls *)
(* belongs to the action of the store call that precedes it.              *)
(*                                                                         *)
(* Strings that the code inspects (emails, passwords, names) are          *)
(* sequences of one-character strings, so that trim, toLowerCase and the  *)
(* password regular expression are computed character by character.       *)
(***************************************************************************)
EXTENDS Naturals, Sequences, FiniteSets, Bags

\* ------------------------------------------------------------------ bounds

\* The store holds at most MaxUsers users.
MaxUsers == 2
\* At most MaxHashes calls of bcrypt.hashSync in one behaviour.
MaxHashes == MaxUsers + 1
\* At most MaxTokens reset tokens are issued in one behaviour.
MaxTokens == 1

\* ------------------------------------------------------------------ inputs

\* An optional field that was not supplied (undefined); the empty string is not
\* among the inputs.
None == <<>>

EmailA == <<"a", "@", "x", ".", "i", "o">>
EmailUpperA == <<"A", "@", "x", ".", "i", "o">>
EmailB == <<"b", "@", "x", ".", "i", "o">>
NotAnEmail == <<"a", "x">>
Password1 == <<"A", "b", "c", "1", "2", "3">>
Password2 == <<"a", "b", "c", "d", "e", "9">>
PaddedPassword2 == <<"a", "b", "c", "d", "e", "9", " ">>
WeakPassword == <<"a", "b", "c", "d", "e", "f">>
NameAnn == <<"A", "n", "n">>

\* z.string().max(40) of passwordSchema and of the name fields.
MaxStringLength == 40
\* (?=.{6,}) of mediumPassword.
MinPasswordLength == 6

\* The characters of the password candidates: one of each class of the policy,
\* and a line terminator.
PolicyAlphabet == {"a", "B", "1", "\n"}

RECURSIVE Repeat(_, _)
Repeat(s, n) == IF n = 0 THEN <<>> ELSE s \o Repeat(s, n - 1)

\* The password candidates: every string over the alphabet that is as long as
\* the policy's minimum or one character shorter, and one string each of the
\* schema's maximal length and of one character more.
PolicyCandidates ==
    UNION {[1..n -> PolicyAlphabet] : n \in (MinPasswordLength - 1)..MinPasswordLength}
    \cup {Repeat(<<"a", "1">>, MaxStringLength \div 2),
          Repeat(<<"a", "1">>, MaxStringLength \div 2) \o <<"B">>}

\* The strings of the requests.  The string functions below are tabulated over
\* them, so that each is computed once per string.
Texts ==
    {None, EmailA, EmailUpperA, EmailB, NotAnEmail, Password1, Password2, PaddedPassword2,
     WeakPassword, NameAnn}

\* -------------------------------------------------------------- characters

LowerAlpha ==
    <<"a", "b", "c", "d", "e", "f", "g", "h", "i", "j", "k", "l", "m", "n", "o", "p", "q", "r", "s", "t", "u", "v", "w", "x", "y", "z">>
UpperAlpha ==
    <<"A", "B", "C", "D", "E", "F", "G", "H", "I", "J", "K", "L", "M", "N", "O", "P", "Q", "R", "S", "T", "U", "V", "W", "X", "Y", "Z">>
Digits == {"0", "1", "2", "3", "4", "5", "6", "7", "8", "9"}

IsLower(c) == \E i \in DOMAIN LowerAlpha : LowerAlpha[i] = c
IsUpper(c) == \E i \in DOMAIN UpperAlpha : UpperAlpha[i] = c
IsDigit(c) == c \in Digits
\* What String.prototype.trim removes (the two white-space characters used here).
IsSpace(c) == c \in {" ", "\n"}

\* String.prototype.toLowerCase, one character.
LowerChar(c) ==
    IF IsUpper(c)
    THEN LowerAlpha[CHOOSE i \in DOMAIN UpperAlpha : UpperAlpha[i] = c]
    ELSE c

\* String.prototype.toLowerCase.
LowerCased(s) == [i \in DOMAIN s |-> LowerChar(s[i])]
LowerCasedTexts == [s \in Texts |-> LowerCased(s)]
ToLowerCase(s) == LowerCasedTexts[s]

RECURSIVE TrimStart(_)
TrimStart(s) ==
    IF s # <<>> /\ IsSpace(Head(s)) THEN TrimStart(Tail(s)) ELSE s

RECURSIVE TrimEnd(_)
TrimEnd(s) ==
    IF s # <<>> /\ IsSpace(s[Len(s)]) THEN TrimEnd(SubSeq(s, 1, Len(s) - 1)) ELSE s

\* String.prototype.trim.
Trimmed(s) == TrimEnd(TrimStart(s))
TrimmedTexts == [s \in Texts |-> Trimmed(s)]
Trim(s) == TrimmedTexts[s]

\* ---------------------------------------------------------- password policy

\* The part of the string a "." of the regular expression can run over from
\* position 0: "." matches no line terminator.
RECURSIVE FirstLine(_)
FirstLine(s) ==
    IF s = <<>> \/ Head(s) = "\n" THEN <<>> ELSE <<Head(s)>> \o FirstLine(Tail(s))

\* (?=.*[a-z]), (?=.*[A-Z]), (?=.*[0-9]) at position 0.
HasLower(s) == \E i \in DOMAIN FirstLine(s) : IsLower(s[i])
HasUpper(s) == \E i \in DOMAIN FirstLine(s) : IsUpper(s[i])
HasDigit(s) == \E i \in DOMAIN FirstLine(s) : IsDigit(s[i])

\* mediumPassword.test(val)
MediumPassword(s) ==
    /\ \/ HasLower(s) /\ HasUpper(s)
       \/ HasLower(s) /\ HasDigit(s)
       \/ HasUpper(s) /\ HasDigit(s)
    /\ Len(FirstLine(s)) >= MinPasswordLength
MediumPasswordTexts == [s \in Texts |-> MediumPassword(s)]
MediumPasswordTest(s) == IF s \in Texts THEN MediumPasswordTexts[s] ELSE MediumPassword(s)

\* z.string().min(3) of register's name.
MinNameLength == 3

\* passwordSchema(...).parse succeeds: nonempty, at most 40 characters, and the
\* refinement (which throws when the regular expression fails).
PasswordSchemaOk(s) ==
    /\ Len(s) > 0
    /\ Len(s) <= MaxStringLength
    /\ MediumPasswordTest(s)

\* z.string().email(): a local part of letters and digits, one "@", and a
\* domain of labels separated by "." whose last label has two letters or more.
IsWordChar(c) == IsLower(c) \/ IsUpper(c) \/ IsDigit(c)
EmailRegex(s) ==
    \E at \in DOMAIN s :
        /\ s[at] = "@"
        /\ at > 1
        /\ \A i \in 1..(at - 1) : IsWordChar(s[i])
        /\ \E dot \in (at + 2)..(Len(s) - 2) :
              /\ s[dot] = "."
              /\ \A i \in (at + 1)..(dot - 1) : IsWordChar(s[i]) \/ s[i] = "."
              /\ s[at + 1] # "." /\ s[dot - 1] # "."
              /\ \A i \in (dot + 1)..Len(s) : IsLower(s[i]) \/ IsUpper(s[i])
EmailTexts == {s \in Texts : EmailRegex(s)}
IsEmail(s) == s \in EmailTexts

\* ------------------------------------------------------------ bcrypt, jwt

\* bcrypt.hashSync(password, 10): a salted hash; salt is the number of the call,
\* so no two calls return the same hash.
HashSync(password, salt) == [password |-> password, salt |-> salt]

\* bcrypt.compareSync(password, hash)
CompareSync(password, hash) == hash.password = password

\* expiresIn: "15m", in clock units of fifteen minutes.
ExpiresIn == 1
\* jwt.sign({id, email}, secret, {expiresIn: "15m"}) at time now: the payload
\* and an HMAC of the payload under secret.
JwtSign(id, email, secret, time) ==
    LET payload == [id |-> id, email |-> email, exp |-> time + ExpiresIn]
    IN  [raw |-> "jwt", payload |-> payload,
         signature |-> [payload |-> payload, key |-> secret]]

\* The signature of token is the HMAC of its payload under secret.
JwtSigned(token, secret) ==
    token.signature = [payload |-> token.payload, key |-> secret]

\* jwt.verify without the signature check: what jwt.decode plus an expiry test
\* would accept.
JwtVerifyUnsigned(token, secret, time) ==
    /\ token.raw = "jwt"
    /\ time < token.payload.exp

\* jwt.verify with ignoreExpiration: the signature check alone.
JwtVerifyNoExpiry(token, secret, time) ==
    /\ token.raw = "jwt"
    /\ token.signature = [payload |-> token.payload, key |-> secret]

\* jwt.verify(token, secret) at time now does not throw: the signature is the
\* HMAC of the token's payload under secret, and the token is not expired.
JwtVerify(token, secret, time) ==
    /\ token.raw = "jwt"
    /\ token.signature = [payload |-> token.payload, key |-> secret]
    /\ time < token.payload.exp

\* ------------------------------------------------------------------- state

\* The request handlers that may run at the same time.
Procs == {1, 2}

VARIABLES
    users,     \* the user table: users[id] = [email, name, hash, role]
    options,   \* the globalOptions record with id 1
    now,       \* the clock, in units of fifteen minutes
    hashes,    \* the number of bcrypt.hashSync calls made so far
    tokens,    \* the reset tokens issued so far
    rotated,   \* the issued tokens whose user has changed password since
    redeemed,  \* the tokens with which a changePasswordFromJwt call has succeeded
    inflight,  \* the calls that wait at an await: a bag of [op, pc, inp, loc]
    answer     \* the answer being delivered: [op, inp, loc, res], or Nil

vars == <<users, options, now, hashes, tokens, rotated, redeemed, inflight, answer>>

Nil == [nil |-> TRUE]

\* A handler's answer: the value it returns, or the TRPCError it throws.
Ok(value) == [ok |-> TRUE, code |-> "OK", message |-> "", value |-> value]
Err(code, message) == [ok |-> FALSE, code |-> code, message |-> message, value |-> Nil]
\* tRPC answers a failed input parser with BAD_REQUEST.
ZodError == Err("BAD_REQUEST", "invalid input")
\* tRPC answers an error that is no TRPCError with INTERNAL_SERVER_ERROR.
InternalError(message) == Err("INTERNAL_SERVER_ERROR", message)
\* throwError(message) of ~/server/helpers/errorHandler.
ThrowError(message) == Err("BAD_REQUEST", message)

\* A call of operation op ends with answer res.  A failed call has changed
\* nothing, and its answer carries neither its input nor its locals.
Respond(op, inp, loc, res) ==
    answer' = [op |-> op, inp |-> inp, loc |-> loc, res |-> res]
Fail(op, res) == Respond(op, Nil, Nil, res)

\* A call waits at position pc of operation op.
Call(op, pc, inp, loc) == [op |-> op, pc |-> pc, inp |-> inp, loc |-> loc]
Await(call) == inflight' = inflight (+) SetToBag({call})
Resume(call) == inflight (-) SetToBag({call})

\* The waiting call may step: an answer is delivered as soon as it is there,
\* before any call goes on.
At(call, op, pc) == answer = Nil /\ call.op = op /\ call.pc = pc

\* Handler p takes a new request when the handlers before it are busy: handlers
\* are interchangeable.
Free(p) == answer = Nil /\ BagCardinality(inflight) = p - 1

Init ==
    /\ users = <<>>
    /\ options \in [enableRegistration : BOOLEAN, userRegistrationNotification : BOOLEAN]
    /\ now = 0
    /\ hashes = 0
    /\ tokens = {}
    /\ rotated = {}
    /\ redeemed = {}
    /\ inflight = EmptyBag
    /\ answer = Nil

\* ---------------------------------------------------------- policy calls

\* A call of mediumPassword.test is pending for each password candidate.
InitPolicy ==
    /\ users = <<>>
    /\ options \in [enableRegistration : BOOLEAN, userRegistrationNotification : BOOLEAN]
    /\ now = 0
    /\ hashes = 0
    /\ tokens = {}
    /\ rotated = {}
    /\ redeemed = {}
    /\ \E candidate \in PolicyCandidates :
          inflight = SetToBag({Call("mediumPassword.test", "test", candidate, Nil)})
    /\ answer = Nil

\* mediumPassword.test(candidate)
PolicyTest ==
    \E call \in BagToSet(inflight) :
        /\ At(call, "mediumPassword.test", "test")
        /\ inflight' = Resume(call)
        /\ Respond("mediumPassword.test", call.inp, Nil, Ok(MediumPassword(call.inp)))
        /\ UNCHANGED <<users, options, now, hashes, tokens, rotated, redeemed>>

\* ---------------------------------------------------------------- the store

\* prisma.user.findFirst({where: {email}}): the first user with exactly this
\* email (its id), or 0 for null.
FindFirstByEmail(table, email) ==
    IF \E id \in DOMAIN table : table[id].email = email
    THEN CHOOSE id \in DOMAIN table :
            /\ table[id].email = email
            /\ \A other \in DOMAIN table : table[other].email = email => id <= other
    ELSE 0

\* prisma.user.findFirst({where: {id}})
FindFirstById(table, id) == IF id \in DOMAIN table THEN id ELSE 0

\* A user table without the unique index on email.
UniqueEmailUnchecked(table, id, email) == TRUE

\* The unique index of the user table on email: no user other than id has
\* exactly this email (id 0 for a user about to be created).  A create or update
\* that would break it is rejected, and the call throws the store's error.
UniqueEmail(table, id, email) ==
    \A other \in DOMAIN table : other # id => table[other].email # email

\* tRPC answers the store's error, which is no TRPCError, with INTERNAL_SERVER_ERROR.
UniqueConstraintFailed == InternalError("Unique constraint failed on the fields: (email)")

\* prisma.user.count()
Count(table) == Len(table)

\* prisma.user.findMany({where: {role: "ADMIN"}}), as the sequence of their ids.
RECURSIVE FindAdminsFrom(_, _)
FindAdminsFrom(table, id) ==
    IF id > Len(table) THEN <<>>
    ELSE (IF table[id].role = "ADMIN" THEN <<id>> ELSE <<>>) \o FindAdminsFrom(table, id + 1)

FindManyAdmins(table) == FindAdminsFrom(table, 1)

\* ----------------------------------------------------------------- register

RegisterEmails == {EmailA, EmailUpperA, EmailB, NotAnEmail}
RegisterPasswords == {Password1, WeakPassword}
RegisterNames == {NameAnn}

\* The input schema of register (lines 46-55).
RegisterInputOk(email, password, name) ==
    /\ IsEmail(email)
    /\ PasswordSchemaOk(password)
    /\ Len(name) >= MinNameLength
    /\ Len(name) <= MaxStringLength

\* Registration taken as enabled whatever the settings say.
RegistrationOpen(settings) == TRUE

\* settings.enableRegistration of the global options (lines 59-66).
RegistrationEnabled(settings) == settings.enableRegistration

\* The role rule with the comparison off by one.
RoleForFirstTwo(userCount) == IF userCount <= 1 THEN "ADMIN" ELSE "USER"

\* role: userCount === 0 ? "ADMIN" : "USER"
RoleFor(userCount) == IF userCount = 0 THEN "ADMIN" ELSE "USER"

\* Some stored user's email equals email when letter case is ignored.
SameIgnoringCase(table, email) ==
    \E id \in DOMAIN table : ToLowerCase(table[id].email) = ToLowerCase(email)

\* Registrations that have passed their checks and not yet created their user.
PendingRegisters ==
    {call \in BagToSet(inflight) : call.op = "register" /\ call.pc \in {"count", "create"}}

\* register up to the await of prisma.user.count(): the input parser, the
\* enableRegistration check, the lookup of the email, the password check and the
\* hash.
RegisterCheck(p, email, password, name) ==
    LET inp == [email |-> Trim(email), password |-> password, name |-> name]
        registerUser == FindFirstByEmail(users, inp.email)
        loc == [hash |-> HashSync(password, hashes + 1),
                sameIgnoringCase |-> SameIgnoringCase(users, inp.email),
                userCount |-> 0, newUser |-> 0]
        fail(res) == /\ Fail("register", res)
                     /\ UNCHANGED <<hashes, inflight>>
    IN  /\ Free(p)
        /\ IF ~RegisterInputOk(email, password, name)
             THEN fail(ZodError)
           ELSE IF ~RegistrationEnabled(options)
             THEN fail(Err("BAD_REQUEST",
                           "Registration is disabled! Please contact the administrator."))
           ELSE IF registerUser # 0
             THEN fail(Err("NOT_FOUND", "email already taken"))
           ELSE IF password # <<>> /\ ~MediumPasswordTest(password)
             THEN fail(Err("BAD_REQUEST", "Password does not meet the requirements!"))
           ELSE /\ hashes < MaxHashes
                /\ Len(users) + Cardinality(PendingRegisters) < MaxUsers
                /\ hashes' = hashes + 1
                /\ Await(Call("register", "count", inp, loc))
                /\ UNCHANGED answer
        /\ UNCHANGED <<users, options, now, tokens, rotated, redeemed>>

\* const userCount = await ctx.prisma.user.count()
RegisterCount ==
    \E call \in BagToSet(inflight) :
        /\ At(call, "register", "count")
        /\ inflight' = Resume(call)
                         (+) SetToBag({[call EXCEPT !.pc = "create",
                                                    !.loc.userCount = Count(users)]})
        /\ UNCHANGED <<users, options, now, hashes, tokens, rotated, redeemed, answer>>

\* The user that prisma.user.create stores (lines 119-125).
NewUser(inp, loc) ==
    [email |-> inp.email, name |-> inp.name, hash |-> loc.hash,
     role |-> RoleFor(loc.userCount)]

\* prisma.user.create, then the userRegistrationNotification check.
RegisterCreate ==
    \E call \in BagToSet(inflight) :
        LET created == [call.loc EXCEPT !.newUser = Len(users) + 1]
        IN  /\ At(call, "register", "create")
            /\ IF ~UniqueEmail(users, 0, call.inp.email)
                 THEN /\ inflight' = Resume(call)
                      /\ Fail("register", UniqueConstraintFailed)
                      /\ UNCHANGED users
               ELSE IF options.userRegistrationNotification
                 THEN /\ users' = Append(users, NewUser(call.inp, call.loc))
                      /\ inflight' = Resume(call)
                                       (+) SetToBag({Call("register", "notify", call.inp, created)})
                      /\ UNCHANGED answer
                 ELSE /\ users' = Append(users, NewUser(call.inp, call.loc))
                      /\ inflight' = Resume(call)
                      /\ Respond("register", call.inp, created, Ok(created.newUser))
            /\ UNCHANGED <<options, now, hashes, tokens, rotated, redeemed>>

\* What one round of the loop over adminUsers can meet: the mail is sent, sendEmail
\* throws, or ejs.render / JSON.parse throws on the configured template.
SendOutcomes == {"sent", "sendEmail throws", "render throws"}

\* The loop over adminUsers (lines 148-176), where outcome[i] is what round i
\* meets: the recipients for which sendEmail was called, those for which it
\* threw, and whether an error left the loop.
RECURSIVE NotifyFrom(_, _, _, _)
NotifyFrom(adminUsers, outcome, i, acc) ==
    IF i > Len(adminUsers) THEN acc
    ELSE IF outcome[i] = "render throws" THEN [acc EXCEPT !.thrown = TRUE]
    ELSE NotifyFrom(adminUsers, outcome, i + 1,
            [acc EXCEPT !.attempted = @ \cup {adminUsers[i]},
                        !.failed = IF outcome[i] = "sendEmail throws"
                                     THEN @ \cup {adminUsers[i]} ELSE @])

\* The loop without its try / catch: a throw of sendEmail leaves the loop as a
\* throw of the rendering does.
NotifyUncaught(adminUsers, outcome) ==
    NotifyFrom(adminUsers,
               [i \in DOMAIN outcome |->
                   IF outcome[i] = "sendEmail throws" THEN "render throws" ELSE outcome[i]],
               1, [attempted |-> {}, failed |-> {}, thrown |-> FALSE])

Notify(adminUsers, outcome) ==
    NotifyFrom(adminUsers, outcome, 1, [attempted |-> {}, failed |-> {}, thrown |-> FALSE])

\* prisma.user.findMany of the admins, the loop over them, and the return.  The
\* loop touches the mail transport only, so it is one step with the read.
RegisterNotify(outcome) ==
    \E call \in BagToSet(inflight) :
        LET adminUsers == FindManyAdmins(users)
            sent == Notify(adminUsers, outcome)
            loc == [newUser |-> call.loc.newUser,
                    sameIgnoringCase |-> call.loc.sameIgnoringCase,
                    recipients |-> {adminUsers[i] : i \in DOMAIN adminUsers},
                    attempted |-> sent.attempted, failed |-> sent.failed,
                    rendered |-> \A i \in DOMAIN outcome : outcome[i] # "render throws"]
        IN  /\ At(call, "register", "notify")
            /\ DOMAIN outcome = DOMAIN adminUsers
            /\ inflight' = Resume(call)
            /\ Respond("register", call.inp, loc,
                       IF sent.thrown THEN InternalError("render") ELSE Ok(loc.newUser))
            /\ UNCHANGED <<users, options, now, hashes, tokens, rotated, redeemed>>

\* ------------------------------------------------------------------- update

Supplied(field) == field # None

UpdateEmails == {None, EmailA}
UpdateNames == {None}
UpdatePasswords == {None, Password1}
UpdateNewPasswords == {None, Password2, WeakPassword}
UpdateRepeatPasswords == {None, Password1, Password2}
UpdateInputs ==
    [email : UpdateEmails, password : UpdatePasswords, newPassword : UpdateNewPasswords,
     repeatNewPassword : UpdateRepeatPasswords, name : UpdateNames]

\* The input schema of update (lines 192-214): every field optional.
UpdateInputOk(raw) ==
    /\ Supplied(raw.email) => IsEmail(raw.email)
    /\ Supplied(raw.password) => PasswordSchemaOk(raw.password)
    /\ Supplied(raw.newPassword) => PasswordSchemaOk(raw.newPassword)
    /\ Supplied(raw.repeatNewPassword) => PasswordSchemaOk(raw.repeatNewPassword)
    /\ Supplied(raw.name) => Len(raw.name) > 0 /\ Len(raw.name) <= MaxStringLength

\* The transforms of the input schema: each supplied string trimmed.
UpdateTransform(raw) ==
    [email |-> Trim(raw.email), password |-> Trim(raw.password),
     newPassword |-> Trim(raw.newPassword),
     repeatNewPassword |-> Trim(raw.repeatNewPassword), name |-> raw.name]

\* The checks of update without the comparison of newPassword and
\* repeatNewPassword.
UpdateChecksNoRepeat(input, user) ==
    IF ~(Supplied(input.newPassword) \/ Supplied(input.repeatNewPassword) \/ Supplied(input.password))
      THEN Nil
    ELSE IF ~Supplied(input.newPassword) \/ ~Supplied(input.repeatNewPassword) \/ ~Supplied(input.password)
      THEN Err("BAD_REQUEST", "Please fill all fields!")
    ELSE IF ~MediumPasswordTest(input.newPassword)
      THEN Err("BAD_REQUEST", "Password does not meet the requirements!")
    ELSE IF ~CompareSync(input.password, user.hash)
      THEN Err("BAD_REQUEST", "Old password is incorrect!")
    ELSE Nil

\* The checks of update made only when all three password fields are supplied.
UpdateChecksWhenComplete(input, user) ==
    IF ~(Supplied(input.newPassword) /\ Supplied(input.repeatNewPassword) /\ Supplied(input.password))
      THEN Nil
    ELSE IF ~MediumPasswordTest(input.newPassword)
      THEN Err("BAD_REQUEST", "Password does not meet the requirements!")
    ELSE IF ~CompareSync(input.password, user.hash)
      THEN Err("BAD_REQUEST", "Old password is incorrect!")
    ELSE IF input.newPassword # input.repeatNewPassword
      THEN Err("BAD_REQUEST", "Passwords do not match!")
    ELSE Nil

\* The checks of lines 231-269 against the user that was read: the error thrown,
\* or Nil when the handler goes on to the write.
UpdateChecks(input, user) ==
    IF ~(Supplied(input.newPassword) \/ Supplied(input.repeatNewPassword) \/ Supplied(input.password))
      THEN Nil
    ELSE IF ~Supplied(input.newPassword) \/ ~Supplied(input.repeatNewPassword) \/ ~Supplied(input.password)
      THEN Err("BAD_REQUEST", "Please fill all fields!")
    ELSE IF ~MediumPasswordTest(input.newPassword)
      THEN Err("BAD_REQUEST", "Password does not meet the requirements!")
    ELSE IF ~CompareSync(input.password, user.hash)
      THEN Err("BAD_REQUEST", "Old password is incorrect!")
    ELSE IF input.newPassword # input.repeatNewPassword
      THEN Err("BAD_REQUEST", "Passwords do not match!")
    ELSE Nil

\* The data of prisma.user.update (lines 276-282), from the input and the user
\* that was read.
UpdateData(input, user, salt) ==
    [email |-> IF Supplied(input.email) THEN input.email ELSE user.email,
     name |-> IF Supplied(input.name) THEN input.name ELSE user.name,
     hash |-> IF Supplied(input.newPassword)
                THEN HashSync(input.newPassword, salt) ELSE user.hash]

\* What a call of update asks for, whatever the handler makes of it: a password
\* field is supplied; all three are; and the four conditions of a password
\* change hold against hash.
SomePasswordField(input) ==
    Supplied(input.password) \/ Supplied(input.newPassword) \/ Supplied(input.repeatNewPassword)
AllPasswordFields(input) ==
    Supplied(input.password) /\ Supplied(input.newPassword) /\ Supplied(input.repeatNewPassword)
PasswordChangeHeld(input, hash) ==
    /\ AllPasswordFields(input)
    /\ MediumPasswordTest(input.newPassword)
    /\ CompareSync(input.password, hash)
    /\ input.newPassword = input.repeatNewPassword

\* update up to the await of prisma.user.update: the input parser, the read of
\* the session's user, the password checks and the data to write.
UpdateRead(p, id, raw) ==
    LET input == UpdateTransform(raw)
        inp == [id |-> id, email |-> input.email, password |-> input.password,
                newPassword |-> input.newPassword,
                repeatNewPassword |-> input.repeatNewPassword, name |-> input.name]
        found == FindFirstById(users, id)
        asked == [found |-> found # 0, some |-> SomePasswordField(input),
                  all |-> AllPasswordFields(input),
                  held |-> found # 0 /\ PasswordChangeHeld(input, users[found].hash)]
        fail(res) == /\ Respond("update", Nil, asked, res)
                     /\ UNCHANGED <<hashes, inflight>>
    IN  /\ Free(p)
        /\ IF ~UpdateInputOk(raw)
             THEN fail(ZodError)
           ELSE IF found = 0
             THEN fail(Err("NOT_FOUND", "User not found!"))
           ELSE IF UpdateChecks(input, users[found]) # Nil
             THEN fail(UpdateChecks(input, users[found]))
           ELSE LET hashing == IF Supplied(input.newPassword) THEN 1 ELSE 0
                IN  /\ hashes + hashing <= MaxHashes
                    /\ hashes' = hashes + hashing
                    /\ Await(Call("update", "write", inp,
                                  [read |-> users[found].hash,
                                   typed |-> raw.newPassword,
                                   data |-> UpdateData(input, users[found], hashes + 1)]))
                    /\ UNCHANGED answer
        /\ UNCHANGED <<users, options, now, tokens, rotated, redeemed>>

\* The tokens of user id are no longer signed with the stored hash once a
\* password change of that user has been stored.
Rotate(id) == rotated \cup {t \in tokens : t.payload.id = id}

\* An update of the store that writes the default role with the data.
StoreUpdateWithRole(table, id, data) ==
    [table EXCEPT ![id].email = data.email, ![id].name = data.name,
                  ![id].hash = data.hash, ![id].role = "USER"]

\* prisma.user.update({where: {id}, data: {email, name, hash}}): the fields of
\* data replace those of the user with this id.
StoreUpdate(table, id, data) ==
    [table EXCEPT ![id].email = data.email, ![id].name = data.name, ![id].hash = data.hash]

\* await ctx.prisma.user.update({where: {id: user.id}, data})
UpdateWrite ==
    \E call \in BagToSet(inflight) :
        LET id == call.inp.id
            data == call.loc.data
        IN  /\ At(call, "update", "write")
            /\ inflight' = Resume(call)
            /\ IF ~UniqueEmail(users, id, data.email)
                 THEN /\ Fail("update", UniqueConstraintFailed)
                      /\ UNCHANGED <<users, rotated, redeemed>>
                 ELSE /\ users' = StoreUpdate(users, id, data)
                      /\ rotated' = IF Supplied(call.inp.newPassword)
                                      THEN Rotate(id) ELSE rotated
                      /\ UNCHANGED redeemed
                      /\ Respond("update", call.inp,
                                 [read |-> call.loc.read, typed |-> call.loc.typed,
                                  stored |-> users[id].hash, written |-> data.hash],
                                 Ok(Nil))
            /\ UNCHANGED <<options, now, hashes, tokens>>

\* -------------------------------------------------------- passwordResetLink

ResetEmails == {EmailA, EmailUpperA, NotAnEmail}
MailOutcomes == {"sent", "sendEmail throws"}

\* passwordResetLink: the lookup of the lower-cased email, the token signed with
\* the user's hash, and the mail.  The handler reads the user store once, so it
\* is one step.
PasswordResetLink(p, email, outcome) ==
    LET inp == [email |-> Trim(email)]
        user == FindFirstByEmail(users, ToLowerCase(inp.email))
        validationToken == JwtSign(user, users[user].email, users[user].hash, now)
    IN  /\ Free(p)
        /\ IF ~IsEmail(email)
             THEN /\ Fail("passwordResetLink", ZodError)
                  /\ UNCHANGED <<tokens, rotated, redeemed>>
           ELSE IF user = 0
             THEN /\ Respond("passwordResetLink", inp, [user |-> 0],
                             Ok("Mail sent if email exist!"))
                  /\ UNCHANGED <<tokens, rotated, redeemed>>
           ELSE /\ validationToken \in tokens \/ Cardinality(tokens) < MaxTokens
                /\ tokens' = tokens \cup {validationToken}
                /\ rotated' = rotated \ {validationToken}
                /\ UNCHANGED redeemed
                /\ Respond("passwordResetLink", inp, [user |-> user],
                           IF outcome = "sent" THEN Ok("undefined")
                           ELSE InternalError("sendEmail"))
        /\ UNCHANGED <<users, options, now, hashes, inflight>>

\* ----------------------------------------------------- changePasswordFromJwt

\* A signing key that is no stored hash: what a caller without the hash can use.
GuessedKey == HashSync(Password1, 0)

\* The tokens a caller can present: the issued ones, an issued one with its user
\* id or its expiry rewritten (the signature kept), tokens signed with a key of
\* the caller's own (one of them without an id, the others for users that exist
\* or do not exist yet), a string that is no JWT, and the empty string.
PresentedTokens ==
    tokens
    \cup {[t EXCEPT !.payload.id = id] : t \in tokens, id \in DOMAIN users}
    \cup {[t EXCEPT !.payload.exp = @ + ExpiresIn] : t \in tokens}
    \cup {JwtSign(id, EmailA, GuessedKey, now) : id \in 0..MaxUsers}
    \cup {[raw |-> "garbage"], [raw |-> ""]}

RedeemPasswords == {Password2, WeakPassword}
RedeemNewPasswords == {Password1, Password2}

\* jwt.decode(token): the payload, unverified; null for a string that is no JWT.
JwtDecode(token) == IF token.raw = "jwt" THEN token.payload ELSE Nil

\* The body of the try block up to the await of prisma.user.update (lines
\* 374-386): the error thrown, or Nil when the token is accepted.
RedeemChecks(token, table, time) ==
    IF JwtDecode(token) = Nil
      THEN InternalError("Cannot destructure property 'id'")
    ELSE IF JwtDecode(token).id = 0
      THEN ThrowError("This link is not valid!")
    ELSE IF FindFirstById(table, JwtDecode(token).id) = 0
      THEN ThrowError("Something went wrong!")
    ELSE IF ~JwtVerify(token, table[JwtDecode(token).id].hash, time)
      THEN IF JwtSigned(token, table[JwtDecode(token).id].hash)
             THEN InternalError("jwt expired")
             ELSE InternalError("invalid signature")
    ELSE Nil

\* The catch block (lines 397-400): every error of the try block becomes this one.
TokenNotValid == ThrowError("token is not valid, please try again!")

\* A try block without its catch: the error leaves the handler as it is.
Rethrow(error) == error

\* catch (error) { console.error(error); throwError(...) }
Catch(error) == TokenNotValid

\* changePasswordFromJwt up to the await of prisma.user.update.
RedeemRead(p, token, password, newPassword) ==
    LET inp == [token |-> token, password |-> password, newPassword |-> newPassword]
        id == JwtDecode(token).id
        fail(res) == /\ Fail("changePasswordFromJwt", res)
                     /\ UNCHANGED <<hashes, inflight>>
    IN  /\ Free(p)
        /\ IF ~(PasswordSchemaOk(password) /\ PasswordSchemaOk(newPassword))
             THEN fail(ZodError)
           ELSE IF token.raw = ""
             THEN fail(ThrowError("token is required!"))
           ELSE IF password # newPassword
             THEN fail(ThrowError("Passwords does not match!"))
           ELSE IF RedeemChecks(token, users, now) # Nil
             THEN /\ Respond("changePasswordFromJwt", Nil,
                             [caught |-> RedeemChecks(token, users, now)],
                             Catch(RedeemChecks(token, users, now)))
                  /\ UNCHANGED <<hashes, inflight>>
           ELSE /\ hashes < MaxHashes
                /\ hashes' = hashes + 1
                /\ Await(Call("changePasswordFromJwt", "write", inp,
                              [rotated |-> token \in rotated, id |-> id,
                               read |-> users[id].hash, time |-> now,
                               hash |-> HashSync(password, hashes + 1)]))
                /\ UNCHANGED answer
        /\ UNCHANGED <<users, options, now, tokens, rotated, redeemed>>

\* A caller presents one of the tokens it can have.
Redeem(p, password, newPassword) ==
    \E token \in PresentedTokens : RedeemRead(p, token, password, newPassword)

\* What the await of a store call can end with: its result, or an error thrown.
StoreOutcomes == {"done", "error"}

\* return await ctx.prisma.user.update({where: {id}, data: {hash}}), and the
\* catch block around it.
RedeemWrite(outcome) ==
    \E call \in BagToSet(inflight) :
        LET id == call.loc.id
        IN  /\ At(call, "changePasswordFromJwt", "write")
            /\ inflight' = Resume(call)
            /\ IF outcome = "error"
                 THEN /\ Respond("changePasswordFromJwt", Nil,
                                 [caught |-> InternalError("prisma.user.update")],
                                 Catch(InternalError("prisma.user.update")))
                      /\ UNCHANGED <<users, rotated, redeemed>>
                 ELSE /\ users' = [users EXCEPT ![id].hash = call.loc.hash]
                      /\ rotated' = Rotate(id)
                      /\ redeemed' = redeemed \cup {call.inp.token}
                      /\ Respond("changePasswordFromJwt", call.inp,
                                 [rotated |-> call.loc.rotated, id |-> id,
                                  read |-> call.loc.read, time |-> call.loc.time,
                                  hash |-> call.loc.hash,
                                  redeemed |-> call.inp.token \in redeemed],
                                 Ok(id))
            /\ UNCHANGED <<options, now, hashes, tokens>>

\* -------------------------------------------------------------------- clock

\* Time passes.  Only jwt.sign and jwt.verify read the clock, so it runs until
\* every issued token is past its expiry.
Tick ==
    /\ answer = Nil
    /\ \E t \in tokens : now <= t.payload.exp
    /\ now' = now + 1
    /\ UNCHANGED <<users, options, hashes, tokens, rotated, redeemed, inflight, answer>>

\* ------------------------------------------------------- createUserHandler

\* The requests of POST /api/v1/users: the method, the x-zt1-auth header (the
\* empty string for a request without it) and the fields of the body.
HttpMethods == {"POST", "GET"}
HttpKeys == {"", "secret", "guess"}
HttpEmails == {EmailA, EmailB, NotAnEmail}
HttpPasswords == {Password1, WeakPassword}

\* A check of the key that lets every key pass.
VerifyAnyKey(key) == TRUE

\* verifyApiKey(key)
VerifyApiKey(key) == key = "secret"

\* getHTTPStatusCodeFromError of @trpc/server/http, for the codes register
\* fails with.
GetHTTPStatusCodeFromError(code) ==
    CASE code = "BAD_REQUEST" -> 400
      [] code = "NOT_FOUND" -> 404
      [] code = "INTERNAL_SERVER_ERROR" -> 500

\* createUserHandler up to the call of register: 405 for a method other than
\* POST, 401 without a key that verifies; otherwise the handler goes on to call
\* register.
CreateUserHandler(method, key, email, password, name) ==
    LET req == [method |-> method, key |-> key, email |-> email, password |-> password,
                name |-> name]
    IN  /\ Free(1)
        /\ IF method # "POST"
             THEN /\ Respond("createUserHandler", req, [called |-> FALSE, register |-> Nil],
                             [status |-> 405])
                  /\ UNCHANGED inflight
           ELSE IF key = "" \/ ~VerifyApiKey(key)
             THEN /\ Respond("createUserHandler", req, [called |-> FALSE, register |-> Nil],
                             [status |-> 401])
                  /\ UNCHANGED inflight
           ELSE /\ Await(Call("createUserHandler", "register", req, Nil))
                /\ UNCHANGED answer
        /\ UNCHANGED <<users, options, now, hashes, tokens, rotated, redeemed>>

\* await caller.auth.register({email, password, name})
CallRegister ==
    \E call \in BagToSet(inflight) :
        /\ call.op = "createUserHandler"
        /\ RegisterCheck(2, call.inp.email, call.inp.password, call.inp.name)

\* What res.status(200).json(user) can end with.
JsonOutcomes == {"sent", "thrown"}

\* The rest of the try block and the catch block: 200 with the user; for a
\* TRPCError its HTTP status; 500 for any other error.
HandlerRespond(outcome) ==
    \E call \in BagToSet(inflight) :
        /\ call.op = "createUserHandler"
        /\ answer # Nil
        /\ answer.op = "register"
        /\ inflight' = Resume(call)
        /\ Respond("createUserHandler", call.inp, [called |-> TRUE, register |-> answer.res],
                   [status |-> IF ~answer.res.ok
                                 THEN GetHTTPStatusCodeFromError(answer.res.code)
                               ELSE IF outcome = "sent" THEN 200 ELSE 500])
        /\ UNCHANGED <<users, options, now, hashes, tokens, rotated, redeemed>>

\* The response of the handler is delivered.
HandlerReturn ==
    /\ answer # Nil
    /\ answer.op = "createUserHandler"
    /\ answer' = Nil
    /\ UNCHANGED <<users, options, now, hashes, tokens, rotated, redeemed, inflight>>

\* --------------------------------------------------------------- scheduling

\* The answer is delivered.
Return ==
    /\ answer # Nil
    /\ answer' = Nil
    /\ UNCHANGED <<users, options, now, hashes, tokens, rotated, redeemed, inflight>>

\* The calls of register, by the handlers of set running.
RegisterSteps(running) ==
    \/ \E p \in running, email \in RegisterEmails, password \in RegisterPasswords,
          name \in RegisterNames :
          RegisterCheck(p, email, password, name)
    \/ RegisterCount
    \/ RegisterCreate
    \/ \E outcome \in UNION {[1..n -> SendOutcomes] : n \in 0..MaxUsers} :
          RegisterNotify(outcome)

\* The calls of update, passwordResetLink and changePasswordFromJwt.
AccountSteps(running) ==
    \/ \E p \in running :
          \/ \E id \in 1..MaxUsers, raw \in UpdateInputs : UpdateRead(p, id, raw)
          \/ \E email \in ResetEmails, outcome \in MailOutcomes :
                PasswordResetLink(p, email, outcome)
          \/ \E password \in RedeemPasswords, newPassword \in RedeemNewPasswords :
                Redeem(p, password, newPassword)
    \/ UpdateWrite
    \/ \E outcome \in StoreOutcomes : RedeemWrite(outcome)

\* The handlers of set running interleave at their awaits.
Schedule(running) ==
    \/ RegisterSteps(running)
    \/ AccountSteps(running)
    \/ Return
    \/ Tick

Next == Schedule(Procs)

Spec == Init /\ [][Next]_vars

\* One request at a time.
NextSeq == Schedule({1})

SpecSeq == Init /\ [][NextSeq]_vars

\* Registrations only, side by side.
NextRegister == RegisterSteps(Procs) \/ Return

SpecRegister == Init /\ [][NextRegister]_vars

\* The calls on an account side by side, registrations one at a time, within
\* the fifteen minutes after the clock's start.
NextAccount ==
    \/ RegisterSteps({1})
    \/ AccountSteps(Procs)
    \/ Return

SpecAccount == Init /\ [][NextAccount]_vars

\* The inputs of update that pass the password checks of a user with
\* Password1: those without a password field, and those of a password change.
EmailUpdateInputs ==
    {raw \in UpdateInputs :
        \/ raw.password = None /\ raw.newPassword = None /\ raw.repeatNewPassword = None
        \/ raw.password = Password1 /\ raw.newPassword = Password2
              /\ raw.repeatNewPassword = Password2}

\* The calls that write an email, register and update, side by side.
NextEmail ==
    \/ RegisterSteps(Procs)
    \/ \E p \in Procs, id \in 1..MaxUsers, raw \in EmailUpdateInputs : UpdateRead(p, id, raw)
    \/ UpdateWrite
    \/ Return

SpecEmail == Init /\ [][NextEmail]_vars

\* The inputs of an update that changes the password and nothing else, with and
\* without a space after a password.
PasswordChangeInputs ==
    [email : {None}, password : {Password1, Password2},
     newPassword : {Password1, Password2, PaddedPassword2},
     repeatNewPassword : {Password1, Password2, PaddedPassword2}, name : {None}]

\* Registrations and password changes by update, one request at a time.
NextPassword ==
    \/ RegisterSteps({1})
    \/ \E id \in 1..MaxUsers, raw \in PasswordChangeInputs : UpdateRead(1, id, raw)
    \/ UpdateWrite
    \/ Return

SpecPassword == Init /\ [][NextPassword]_vars

\* The registration of a first user with a password candidate.
RegisterFirst ==
    /\ users = <<>>
    /\ Free(1)
    /\ \E password \in PolicyCandidates : RegisterCheck(1, EmailA, password, NameAnn)

\* The password policy applied to each candidate, and the registration of a
\* first user with a candidate as password.
NextPolicy ==
    \/ PolicyTest
    \/ RegisterFirst
    \/ RegisterCount
    \/ RegisterCreate
    \/ \E outcome \in UNION {[1..n -> SendOutcomes] : n \in 0..MaxUsers} :
          RegisterNotify(outcome)
    \/ Return

SpecPolicy == InitPolicy /\ [][NextPolicy]_vars

\* The requests to createUserHandler, one at a time, and the register calls
\* the handler makes.
NextHttp ==
    \/ \E method \in HttpMethods, key \in HttpKeys, email \in HttpEmails,
          password \in HttpPasswords :
          CreateUserHandler(method, key, email, password, NameAnn)
    \/ CallRegister
    \/ RegisterCount
    \/ RegisterCreate
    \/ \E outcome \in UNION {[1..n -> SendOutcomes] : n \in 0..MaxUsers} :
          RegisterNotify(outcome)
    \/ \E outcome \in JsonOutcomes : HandlerRespond(outcome)
    \/ HandlerReturn

SpecHttp == Init /\ [][NextHttp]_vars

\* Registrations and requests for a reset link, one request at a time: no call
\* changes a stored email.
NextReset ==
    \/ RegisterSteps({1})
    \/ \E email \in ResetEmails, outcome \in MailOutcomes : PasswordResetLink(1, email, outcome)
    \/ Return

SpecReset == Init /\ [][NextReset]_vars

\* ------------------------------------------------------------------- claims

\* An answer of operation op is being delivered; it is a success.
Delivered(op) == answer # Nil /\ answer.op = op
Succeeded(op) == Delivered(op) /\ answer.res.ok

\* The step can be the first step of a call of operation op: it answers a call
\* of op, or one more call is waiting after it.
StartsCall(op) ==
    IF answer' # Nil
      THEN answer'.op = op
      ELSE BagCardinality(inflight') > BagCardinality(inflight)

\* C1: once a user's stored hash has been replaced by a later password change, a
\* redeem attempt with a reset token issued for that user before the change
\* fails and changes no stored hash: no changePasswordFromJwt call that presents
\* such a token succeeds.
RotatedTokenRejected ==
    Succeeded("changePasswordFromJwt") => ~answer.loc.rotated

\* The users with role ADMIN.
Admins == {id \in DOMAIN users : users[id].role = "ADMIN"}

\* C2: under any interleaving of register calls that start while the user store
\* is empty, at most one of the created users has role ADMIN.
AtMostOneAdmin == Cardinality(Admins) <= 1

\* C3: a step of changePasswordFromJwt changes the user table only if the
\* presented token is unexpired when it is verified and its signature is the
\* one made with the stored hash of the very user the token names, as the call
\* read it: the token is one that passwordResetLink issued for that user.  The
\* call then writes that user's hash and no other record; the id of the payload
\* alone authorises nothing.
RedeemAuthorised ==
    [][(answer' # Nil /\ answer'.op = "changePasswordFromJwt" /\ users' # users) =>
          /\ answer'.res.ok
          /\ LET token == answer'.inp.token
                 id == answer'.res.value
             IN  /\ id \in DOMAIN users
                 /\ token.raw = "jwt"
                 /\ token.payload.id = id
                 /\ token.signature = [payload |-> token.payload, key |-> answer'.loc.read]
                 /\ token \in tokens
                 /\ answer'.loc.time < token.payload.exp
                 /\ users'[id].hash = answer'.loc.hash
                 /\ \A other \in DOMAIN users : other # id => users'[other] = users[other]
       ]_vars

\* A changePasswordFromJwt call has succeeded.
RedeemSucceeded == Succeeded("changePasswordFromJwt")

ResetAnswerUniform ==
    Succeeded("passwordResetLink") => answer.res.value = "Mail sent if email exist!"

RegisterRejectsCaseVariant ==
    Succeeded("register") => ~answer.loc.sameIgnoringCase

\* C8: with one request at a time, the register call that succeeds on the empty
\* store creates a user with role ADMIN and every later one a user with role
\* USER: the first user of the table is the one ADMIN.
FirstUserIsTheAdmin ==
    \A id \in DOMAIN users : users[id].role = IF id = 1 THEN "ADMIN" ELSE "USER"

\* A second register call has succeeded.
SecondUserRegistered ==
    Succeeded("register") /\ answer.res.value = 2

\* C9: in a register call that notifies the admins and whose templates render,
\* whichever sends fail, the new user stays stored, the call returns the created
\* user, and a send is attempted for every user with role ADMIN.
NotificationFailureIsolated ==
    (Delivered("register") /\ "rendered" \in DOMAIN answer.loc /\ answer.loc.rendered) =>
        /\ answer.res.ok
        /\ answer.res.value = answer.loc.newUser
        /\ answer.loc.newUser \in DOMAIN users
        /\ users[answer.loc.newUser].email = answer.inp.email
        /\ answer.loc.attempted = Admins
        /\ answer.loc.failed \subseteq answer.loc.attempted

\* The send to the first of two admins has failed, and the second was attempted.
FirstSendFailed ==
    /\ Delivered("register")
    /\ "rendered" \in DOMAIN answer.loc
    /\ answer.loc.rendered
    /\ Cardinality(answer.loc.attempted) >= 2
    /\ 1 \in answer.loc.failed

\* C10: an update call that supplies no password field leaves the user's stored
\* hash as it is in the store at the moment of its write: the hash it writes is
\* the hash stored just before.
UpdateKeepsStoredHash ==
    (Succeeded("update") /\ ~SomePasswordField(answer.inp)) =>
        answer.loc.written = answer.loc.stored

\* C11: a reset token leads to at most one successful changePasswordFromJwt:
\* once a call presenting token T has succeeded, no other call presenting T
\* succeeds, whether it starts afterwards or runs interleaved with the first.
TokenRedeemedOnce ==
    Succeeded("changePasswordFromJwt") => ~answer.loc.redeemed

\* C12: a changePasswordFromJwt call made more than fifteen minutes after its
\* token was issued fails and leaves the user table unchanged, whether or not
\* the password has changed; a call made within the fifteen minutes with two
\* equal passwords, for a user whose stored hash is the one the token was
\* signed with, is accepted and goes on to its write.
TokenValidFifteenMinutes ==
    [][\/ answer # Nil
       \/ ~StartsCall("changePasswordFromJwt")
       \/ \A p \in Procs, token \in tokens, password \in RedeemPasswords,
              newPassword \in RedeemNewPasswords :
              RedeemRead(p, token, password, newPassword) =>
                 /\ now > token.payload.exp =>
                       answer' # Nil /\ ~answer'.res.ok /\ users' = users
                 /\ (/\ now < token.payload.exp
                     /\ password = newPassword
                     /\ PasswordSchemaOk(password)
                     /\ users[token.payload.id].hash = token.signature.key) =>
                       /\ answer' = Nil
                       /\ \E call \in BagToSet(inflight') :
                             call.op = "changePasswordFromJwt" /\ call.inp.token = token
      ]_vars

\* A call has presented a token signed with the stored hash after its expiry,
\* and has failed.
ExpiredTokenRefused ==
    /\ Delivered("changePasswordFromJwt")
    /\ ~answer.res.ok
    /\ answer.res.message = TokenNotValid.message
    /\ answer.loc.caught.message = "jwt expired"
    /\ \E token \in tokens : now > token.payload.exp

\* C13: a passwordResetLink call with the email a user registered with finds
\* that user and issues a token for it, signed with the user's stored hash,
\* also when the email holds uppercase letters.
ResetFindsRegisteredUser ==
    (Delivered("passwordResetLink") /\ answer.inp # Nil) =>
        \A id \in DOMAIN users :
            users[id].email = answer.inp.email =>
               /\ answer.loc.user = id
               /\ JwtSign(id, users[id].email, users[id].hash, now) \in tokens

\* C14: every failure of changePasswordFromJwt that arises after the comparison
\* of the two passwords (a token that cannot be decoded or has no id, a user that
\* does not exist, a signature that does not verify, an expired token, an error
\* of the store) reaches the caller as the one failure 'token is not valid,
\* please try again!', and the call leaves every stored hash as it was.
RedeemFailureGeneric ==
    [][(/\ answer = Nil
        /\ answer' # Nil
        /\ answer'.op = "changePasswordFromJwt"
        /\ answer'.loc # Nil
        /\ ~answer'.res.ok) =>
           /\ answer'.res.code = TokenNotValid.code
           /\ answer'.res.message = TokenNotValid.message
           /\ users' = users
      ]_vars

\* The store has failed the write of a call whose token had passed every check.
RedeemStoreFailed ==
    /\ Delivered("changePasswordFromJwt")
    /\ ~answer.res.ok
    /\ answer.loc # Nil
    /\ answer.loc.caught.message = "prisma.user.update"

\* C15: an update that supplies password, newPassword and repeatNewPassword,
\* with the password the stored hash verifies, a newPassword the policy accepts
\* and a repeatNewPassword equal to it, succeeds; after it the stored hash
\* verifies newPassword as it was supplied, and no longer the old password when
\* the two differ.
UpdateStoresNewPassword ==
    [][/\ \/ answer # Nil
          \/ \A id \in DOMAIN users, raw \in PasswordChangeInputs :
                 (/\ CompareSync(raw.password, users[id].hash)
                  /\ PasswordSchemaOk(raw.newPassword)
                  /\ raw.repeatNewPassword = raw.newPassword
                  /\ UpdateRead(1, id, raw)) => answer' = Nil
       /\ (/\ answer = Nil
           /\ answer' # Nil
           /\ answer'.op = "update"
           /\ answer'.res.ok
           /\ Supplied(answer'.inp.newPassword)) =>
              /\ CompareSync(answer'.loc.typed, users'[answer'.inp.id].hash)
              /\ answer'.loc.typed # answer'.loc.read.password =>
                    ~CompareSync(answer'.loc.read.password, users'[answer'.inp.id].hash)
      ]_vars

\* C16: an update of an existing user that supplies at least one of the three
\* password fields and not all three fails with BAD_REQUEST and leaves the user
\* table (email, name, hash) unchanged, whatever email it supplies: no such
\* call gets to its write, and every answer to such a call is that failure.
PartialPasswordRejected ==
    [][/\ \A call \in BagToSet(inflight') :
             (call.op = "update" /\ SomePasswordField(call.inp)) =>
                AllPasswordFields(call.inp)
       /\ (/\ answer = Nil
           /\ answer' # Nil
           /\ answer'.op = "update"
           /\ answer'.inp = Nil
           /\ answer'.loc # Nil
           /\ answer'.loc.found
           /\ answer'.loc.some
           /\ ~answer'.loc.all) =>
              answer'.res.code = "BAD_REQUEST" /\ users' = users
      ]_vars

\* An update was refused for a password field that was not supplied.
FillAllFieldsAnswered ==
    /\ Delivered("update")
    /\ ~answer.res.ok
    /\ answer.res.message = "Please fill all fields!"

\* The classes of the policy of which string s holds a character.
Classes(s) ==
    {class \in {"lower", "upper", "digit"} :
        \E i \in DOMAIN s :
            \/ class = "lower" /\ IsLower(s[i])
            \/ class = "upper" /\ IsUpper(s[i])
            \/ class = "digit" /\ IsDigit(s[i])}

\* The policy as the claim states it rejects a candidate.
PolicyRejects(s) == Len(s) < MinPasswordLength \/ Cardinality(Classes(s)) <= 1

\* C17: the password policy rejects every candidate shorter than six characters
\* and every candidate with characters of at most one of the classes lowercase
\* letter, uppercase letter and digit, and accepts every candidate of six to
\* forty characters with characters of at least two of the classes; no user is
\* created by a register call with a rejected password.
PolicyTwoOfThree ==
    /\ Delivered("mediumPassword.test") =>
          /\ PolicyRejects(answer.inp) => ~answer.res.value
          /\ (/\ Len(answer.inp) >= MinPasswordLength
              /\ Len(answer.inp) <= MaxStringLength
              /\ Cardinality(Classes(answer.inp)) >= 2) => answer.res.value
    /\ \A id \in DOMAIN users : ~PolicyRejects(users[id].hash.password)

\* C18: while enableRegistration is false every register call fails with
\* BAD_REQUEST, creates no user and sends no notification: every step that
\* answers a call answers a BAD_REQUEST failure, no step changes the user table
\* and no call gets past its first check to the notifications.
DisabledRegistrationRefused ==
    [][~options.enableRegistration =>
          /\ (answer = Nil /\ answer' # Nil) =>
                answer'.op = "register" /\ ~answer'.res.ok /\ answer'.res.code = "BAD_REQUEST"
          /\ users' = users
          /\ inflight' = EmptyBag
      ]_vars

\* A register call with a valid input was refused because registration is
\* disabled.
RegistrationDisabledAnswered ==
    /\ Delivered("register")
    /\ ~options.enableRegistration
    /\ answer.res.message = "Registration is disabled! Please contact the administrator."

\* C19: no step removes a user, and no step changes the role of a user or the
\* id under which the store holds it: every user of the table is in the table
\* after the step, at its id and with its role.
RoleAndIdKept ==
    [][/\ Len(users') >= Len(users)
       /\ \A id \in DOMAIN users : users'[id].role = users[id].role
      ]_vars

\* An update has written a new email to the record of the user with role ADMIN.
AdminEmailUpdated ==
    /\ Succeeded("update")
    /\ Supplied(answer.inp.email)
    /\ users[answer.inp.id].email = answer.inp.email
    /\ users[answer.inp.id].role = "ADMIN"
    /\ \E id \in DOMAIN users : users[id].role = "USER"

\* The handler is waiting for register, or has its answer.
RegisterCalled ==
    \/ \E call \in BagToSet(inflight) : call.op = "register"
    \/ Delivered("register")

\* C20: createUserHandler calls register only for a POST request whose
\* x-zt1-auth header is the key: a request with another method is answered 405,
\* a POST request without the key 401, in both cases without a call of register
\* and without a change of the user table; a failure of register that is a
\* TRPCError is answered with the HTTP status of its code, any other failure
\* with 500.
HandlerGuardsRegister ==
    [][/\ \A call \in BagToSet(inflight') :
             call.op = "createUserHandler" =>
                call.inp.method = "POST" /\ call.inp.key = "secret"
       /\ RegisterCalled' =>
             \E call \in BagToSet(inflight') : call.op = "createUserHandler"
       /\ (answer = Nil /\ answer' # Nil /\ answer'.op = "createUserHandler") =>
             /\ answer'.inp.method # "POST" \/ answer'.inp.key # "secret"
             /\ answer'.res.status = IF answer'.inp.method # "POST" THEN 405 ELSE 401
             /\ ~answer'.loc.called
             /\ users' = users
             /\ inflight' = inflight
       /\ (answer # Nil /\ answer' # Nil /\ answer'.op = "createUserHandler") =>
             /\ answer'.loc.called
             /\ answer.op = "register"
             /\ ~answer.res.ok =>
                   answer'.res.status = GetHTTPStatusCodeFromError(answer.res.code)
             /\ answer.res.ok => answer'.res.status \in {200, 500}
             /\ users' = users
      ]_vars

\* A POST request with a key that does not verify was answered 401.
WrongKeyAnswered ==
    /\ Delivered("createUserHandler")
    /\ answer.inp.method = "POST"
    /\ answer.inp.key = "guess"
    /\ answer.res.status = 401
    /\ users # <<>>

====
